---- MODULE Spec2Model ----
(***************************************************************************)
(* virtualmouse (src/main.cpp): four keypad keys drive a virtual pointer.  *)
(* The main thread polls the keyboards and updates isMoving / moveTimes /  *)
(* numlockOn; a second thread (moveMouseThread) runs moveMouse() every     *)
(* timeInterval ms: incMoveTimes, calcMoveSteps, writeDevice.              *)
(***************************************************************************)
EXTENDS Integers, Sequences, FiniteSets, TLC

(* ------------------------------------------------------------------ *)
(* Program constants                                                   *)
(* ------------------------------------------------------------------ *)
UP == 0
DOWN == 1
LEFT == 2
RIGHT == 3
DIRECTION_NUM == 4
Dir == 0 .. (DIRECTION_NUM - 1)

\* linux/input-event-codes.h, as used by handleEvent and its callees
EV_SYN == 0
EV_KEY == 1
EV_LED == 17
KEY_KP8 == 72
KEY_KP4 == 75
KEY_KP5 == 76
KEY_KP6 == 77
KEY_KP2 == 80
LED_NUML == 0
LED_CAPSL == 1

MIN_STEP == 1
MAX_STEP == 10
MIN_POINT == 50
MAX_POINT == 200

\* std::atomic_int is a 32-bit two's complement int; ++ wraps.
INT_MAX == 2147483647
INT_MIN == (-INT_MAX) - 1

\* mantissa width of an IEEE-754 double
DBL_MANT_DIG == 53

(* ------------------------------------------------------------------ *)
(* Bounds of the model                                                 *)
(* ------------------------------------------------------------------ *)
\* ticks the tick loop may start in one behaviour
MaxTicks == 2
\* calls of moveMouse in the NumLock scenario
MaxScenarioTicks == 3

\* calls of moveMouse in the long-hold scenario
MaxHoldTicks == 203

\* ticks that start in the long-hold scenario before Right is released
MinHoldTicks == 198

\* calls of moveMouse in the runs with a stop signal
MaxStopTicks == 2

\* calls of moveMouse in the runs that start near the end of the counter
MaxWrapTicks == 2

\* largest hold duration handed to moveStep by the curve harness
MaxT == 260

(* ------------------------------------------------------------------ *)
(* IEEE-754 double arithmetic, as far as moveStep uses it.             *)
(* A positive double is [m |-> bits, e |-> exponent]: bits is the      *)
(* mantissa, most significant bit first, and the value is              *)
(* bits * 2^e.  Every operation rounds to nearest, ties to even.       *)
(* ------------------------------------------------------------------ *)
\* Bit strings are built position by position (no deep recursion).
Zeros(k) == [i \in 1 .. k |-> 0] \o << >>

BitWidth(n) == CHOOSE w \in 0 .. 31 : (w = 0 \/ 2 ^ (w - 1) <= n) /\ n < 2 ^ w

\* binary digits of a natural n < 2^31, no leading zero
BitsOfNat(n) ==
    LET w == BitWidth(n)
    IN  [i \in 1 .. w |-> (n \div (2 ^ (w - i))) % 2] \o << >>

\* value of a bit string shorter than 31 bits
RECURSIVE NatOfBits(_)
NatOfBits(b) ==
    IF b = << >> THEN 0
    ELSE 2 * NatOfBits(SubSeq(b, 1, Len(b) - 1)) + b[Len(b)]

\* drop leading zero bits
Strip(b) ==
    LET ones == {i \in 1 .. Len(b) : b[i] = 1}
    IN  IF ones = {} THEN << >>
        ELSE SubSeq(b, CHOOSE i \in ones : \A j \in ones : i <= j, Len(b))

\* carry into position i when adding two bit strings of length n
CarryInto(a, b, i, n) ==
    \E j \in (i + 1) .. n :
        /\ a[j] = 1 /\ b[j] = 1
        /\ \A k \in (i + 1) .. (j - 1) : a[k] + b[k] >= 1

AddBits(a, b) ==
    LET n  == IF Len(a) > Len(b) THEN Len(a) ELSE Len(b)
        pa == Zeros(n - Len(a)) \o a
        pb == Zeros(n - Len(b)) \o b
        c(i) == IF CarryInto(pa, pb, i, n) THEN 1 ELSE 0
    IN  Strip(<<c(0)>> \o [i \in 1 .. n |-> (pa[i] + pb[i] + c(i)) % 2])

\* bits * k for a natural k, by shift and add
RECURSIVE MulBitsNat(_, _)
MulBitsNat(b, k) ==
    IF k = 0 THEN << >>
    ELSE LET h == MulBitsNat(b, k \div 2)
             d == IF h = << >> THEN << >> ELSE Append(h, 0)
         IN  IF k % 2 = 1 THEN AddBits(d, b) ELSE d

AnyOne(b) == \E i \in 1 .. Len(b) : b[i] = 1

\* Round the exact value (bits + a nonzero tail below the last bit iff
\* sticky) * 2^e to DBL_MANT_DIG bits, nearest, ties to even.
RoundDbl(bits, e, sticky) ==
    LET L == Len(bits)
    IN  IF L <= DBL_MANT_DIG THEN [m |-> bits, e |-> e]
        ELSE LET keep  == SubSeq(bits, 1, DBL_MANT_DIG)
                 guard == bits[DBL_MANT_DIG + 1]
                 rest  == sticky \/ AnyOne(SubSeq(bits, DBL_MANT_DIG + 2, L))
                 up    == guard = 1 /\ (rest \/ keep[DBL_MANT_DIG] = 1)
                 k1    == IF up THEN AddBits(keep, <<1>>) ELSE keep
                 e1    == e + (L - DBL_MANT_DIG)
             IN  IF Len(k1) > DBL_MANT_DIG
                 THEN [m |-> SubSeq(k1, 1, DBL_MANT_DIG), e |-> e1 + 1]
                 ELSE [m |-> k1, e |-> e1]

DblOfNat(n) == RoundDbl(BitsOfNat(n), 0, FALSE)

\* 2^k mod d by repeated squaring (d < 2^14)
RECURSIVE Pow2Mod(_, _)
Pow2Mod(k, d) ==
    IF k = 0 THEN 1 % d
    ELSE LET h == Pow2Mod(k \div 2, d)
         IN  (((h * h) % d) * (IF k % 2 = 1 THEN 2 ELSE 1)) % d

\* the first k bits of r / d after the binary point, for 0 <= r < d,
\* and the remainder that is left
FracBits(r, d, k) ==
    [q |-> [i \in 1 .. k |-> (2 * ((r * Pow2Mod(i - 1, d)) % d)) \div d] \o << >>,
     r |-> (r * Pow2Mod(k, d)) % d]

\* the double nearest to n / d, for naturals n > 0 and 0 < d < 2^14
DblDivNat(n, d) ==
    LET ip == BitsOfNat(n \div d)
        k  == DBL_MANT_DIG + 2
        f  == FracBits(n % d, d, k)
        lz == Len(f.q) - Len(Strip(f.q))
        \* restart the fraction after its leading zeros so that
        \* DBL_MANT_DIG + 2 significant bits are produced
        g  == IF ip = << >> THEN FracBits(n % d, d, k + lz) ELSE f
    IN  RoundDbl(Strip(ip \o g.q), -Len(g.q), g.r # 0)

\* the double nearest to x * k, for a double x and a natural k
DblMulNat(x, k) == RoundDbl(MulBitsNat(x.m, k), x.e, FALSE)

\* the double nearest to x + y
DblAdd(x, y) ==
    LET e == IF x.e < y.e THEN x.e ELSE y.e
    IN  RoundDbl(AddBits(x.m \o Zeros(x.e - e), y.m \o Zeros(y.e - e)), e, FALSE)

\* conversion of a non-negative double below 2^31 to int: truncation
DblToInt(x) ==
    IF x.e >= 0 THEN NatOfBits(x.m) * (2 ^ x.e)
    ELSE IF Len(x.m) + x.e <= 0 THEN 0
    ELSE NatOfBits(SubSeq(x.m, 1, Len(x.m) + x.e))

(* ------------------------------------------------------------------ *)
(* moveStep: the acceleration curve                                    *)
(* ------------------------------------------------------------------ *)
\* moveStep with the "* 1.0" forgotten: the quotient is an int division
moveStepIntDiv(times) ==
    IF times <= MIN_POINT THEN MIN_STEP
    ELSE IF times <= MAX_POINT
    THEN MIN_STEP + ((times - MIN_POINT) \div (MAX_POINT - MIN_POINT)) * (MAX_STEP - MIN_STEP)
    ELSE MAX_STEP

\* moveStep with the ramp measured from the wrong end (MAX_POINT - times)
moveStepFalling(times) ==
    IF times <= MIN_POINT THEN MIN_STEP
    ELSE IF times < MAX_POINT
    THEN DblToInt(DblAdd(DblOfNat(MIN_STEP),
                         DblMulNat(DblDivNat(MAX_POINT - times, MAX_POINT - MIN_POINT),
                                   MAX_STEP - MIN_STEP)))
    ELSE IF times = MAX_POINT THEN MIN_STEP
    ELSE MAX_STEP

\* moveStep without the saturation branch
moveStepNoClamp(times) ==
    IF times <= MIN_POINT THEN MIN_STEP
    ELSE DblToInt(DblAdd(DblOfNat(MIN_STEP),
                         DblMulNat(DblDivNat(times - MIN_POINT, MAX_POINT - MIN_POINT),
                                   MAX_STEP - MIN_STEP)))

moveStep(times) ==
    IF times <= MIN_POINT THEN MIN_STEP
    ELSE IF times <= MAX_POINT
    THEN DblToInt(DblAdd(DblOfNat(MIN_STEP),
                         DblMulNat(DblDivNat(times - MIN_POINT, MAX_POINT - MIN_POINT),
                                   MAX_STEP - MIN_STEP)))
    ELSE MAX_STEP

(* ------------------------------------------------------------------ *)
(* State                                                               *)
(* ------------------------------------------------------------------ *)
VARIABLES
    numlockOn,   \* static bool numlockOn
    isMoving,    \* static bool isMoving[DIRECTION_NUM]
    moveTimes,   \* static std::atomic_int moveTimes[DIRECTION_NUM]
    shouldStop,  \* static volatile bool shouldStop
    mpc,         \* main thread: where it is in main / handleDevice / handlers
    mi,          \* main thread: the index i of the loop or call it is in
    evType,      \* main thread: ev.type of the event handleEvent got last
    tpc,         \* tick thread: where it is in moveMouseThread / moveMouse
    ti,          \* tick thread: the loop index i
    steps,       \* tick thread: int steps[DIRECTION_NUM] of moveMouse
    emitted,     \* the (x, y) written to uinputFd by the tick that just ended,
                 \* << >> before the first write and while a tick is running
    ticksLeft,   \* calls of moveMouse the tick loop may still start
    hist,        \* what held without a break since the running tick began:
                 \* ud: UP and DOWN moving, lr: LEFT and RIGHT moving,
                 \* idle: no direction moving
    snaps,       \* the displacements that calcMoveSteps and writeDevice would
                 \* give if run without interruption on the state of each
                 \* instant since the running tick began (kept when track)
    track,       \* whether this behaviour keeps snaps; never changes
    probe,       \* the curve harness: two arguments and results of moveStep
    script       \* the scenario being played, if any: todo, the events the
                 \* keyboard has still to send; sent and done, ticksLeft when
                 \* the last of them reached handleEvent and when its batch
                 \* ended (-1 while it is being handled); stop, ticksLeft
                 \* when the stop signal was delivered

vars == <<numlockOn, isMoving, moveTimes, shouldStop, mpc, mi, evType,
          tpc, ti, steps, emitted, ticksLeft, hist, snaps, track, probe, script>>

shared == <<numlockOn, isMoving, moveTimes, shouldStop>>
mainLocal == <<mpc, mi, evType>>
tickLocal == <<tpc, ti, steps, emitted, ticksLeft>>
ghost == <<hist, snaps, track>>
harness == <<probe, script>>

\* the input events the keyboards deliver: struct input_event {type, code, value}
KeyEvents == [type : {EV_KEY}, code : {KEY_KP8, KEY_KP2, KEY_KP4, KEY_KP6, KEY_KP5},
              value : {0, 1, 2}]
LedEvents == [type : {EV_LED}, code : {LED_NUML, LED_CAPSL}, value : {0, 1, 2}]
SynEvents == [type : {EV_SYN}, code : {0}, value : {0}]
Events == KeyEvents \cup LedEvents \cup SynEvents

NoProbe == [t1 |-> 0, t2 |-> 0, s1 |-> 0, s2 |-> 0, pc |-> "off"]
NoSteps == [i \in Dir |-> 0]
NoScript == [on |-> FALSE, todo |-> << >>, sent |-> 0, done |-> -2, stop |-> 0]

\* a scenario that starts with ticksLeft = n and sends the events es
Play(es, n) == [on |-> TRUE, todo |-> es, sent |-> n, done |-> -2, stop |-> n]

\* the script once handleEvent got an event: the head of todo is consumed
Delivered ==
    script' = IF script.on /\ script.todo # << >>
              THEN [script EXCEPT !.todo = Tail(script.todo),
                                  !.sent = ticksLeft, !.done = -1]
              ELSE script

\* the script once the batch of a scripted event ended
Finished ==
    script' = IF script.on /\ script.done = -1
              THEN [script EXCEPT !.done = ticksLeft]
              ELSE script

\* the script once the stop signal was delivered
Signalled ==
    script' = IF script.on THEN [script EXCEPT !.stop = ticksLeft] ELSE script

\* moveTimes[i]++ left out
Inc32Stuck(x) == x

\* moveTimes[i]++ on a 32-bit atomic int
Inc32(x) == IF x = INT_MAX THEN INT_MIN ELSE x + 1

\* steps left uninitialised: whatever the stack held
InitStepsGarbage == [i \in Dir |-> IF i = RIGHT THEN 1 ELSE 0]

\* int steps[DIRECTION_NUM] = { 0 };
InitSteps == [i \in Dir |-> 0]

\* the if body left out: the two steps are subtracted by writeDevice
CancelPairNone(s, a) == s

\* only the first of the pair set to 0
CancelPairFirst(s, a) == [s EXCEPT ![a] = 0]

\* the steps after both directions of the pair (a, a + 1) were found moving
CancelPair(s, a) == [s EXCEPT ![a] = 0, ![a + 1] = 0]

\* writeDevice: x = steps[RIGHT] - steps[LEFT], y = steps[DOWN] - steps[UP]
Displacement(s) == <<s[RIGHT] - s[LEFT], s[DOWN] - s[UP]>>

\* calcMoveSteps and writeDevice run without interruption on the flags m
\* and the counters t: the displacement of one snapshot
CalcAtomic(m, t) ==
    LET s0 == [i \in Dir |-> IF m[i] THEN moveStep(t[i]) ELSE InitSteps[i]]
        s1 == IF m[UP] /\ m[DOWN] THEN CancelPair(s0, UP) ELSE s0
        s2 == IF m[LEFT] /\ m[RIGHT] THEN CancelPair(s1, LEFT) ELSE s1
    IN  Displacement(s2)

\* hist at the start of a tick, from the isMoving array m
HistOf(m) ==
    [ud   |-> m[UP] /\ m[DOWN],
     lr   |-> m[LEFT] /\ m[RIGHT],
     idle |-> \A i \in Dir : ~m[i]]

\* hist once isMoving has become m; between ticks hist keeps describing
\* the tick that ended
Touch(h, m) ==
    IF tpc = "sleep" THEN h
    ELSE [ud   |-> h.ud /\ HistOf(m).ud,
          lr   |-> h.lr /\ HistOf(m).lr,
          idle |-> h.idle /\ HistOf(m).idle]

\* the history variables once the flags and counters have become m and t
Observe(m, t) ==
    /\ hist' = Touch(hist, m)
    /\ snaps' = IF tpc = "sleep" \/ ~track THEN snaps ELSE snaps \cup {CalcAtomic(m, t)}
    /\ track' = track

(* ------------------------------------------------------------------ *)
(* Main thread: main, handleDevice, handleEvent and its callees        *)
(* ------------------------------------------------------------------ *)
\* one iteration of resetMoveTimes, called after the tick thread started
ResetMoveTimes ==
    /\ mpc = "resetMoveTimes"
    /\ moveTimes' = [moveTimes EXCEPT ![mi] = 0]
    /\ IF mi + 1 < DIRECTION_NUM
       THEN mi' = mi + 1 /\ mpc' = mpc
       ELSE mi' = 0 /\ mpc' = "check"
    /\ Observe(isMoving, moveTimes')
    /\ UNCHANGED <<numlockOn, isMoving, shouldStop, evType, tickLocal, harness>>

\* while (!shouldStop)
MainCheck ==
    /\ mpc = "check"
    /\ mpc' = IF shouldStop THEN "done" ELSE "prepoll"
    /\ UNCHANGED <<shared, mi, evType, tickLocal, ghost, harness>>

\* revents cleared, poll(fds, n, -1) entered: the thread blocks
EnterPoll ==
    /\ mpc = "prepoll"
    /\ mpc' = "poll"
    /\ UNCHANGED <<shared, mi, evType, tickLocal, ghost, harness>>

\* handleKeyEvent's switch with KEY_KP5 taken for UP
KeyIndexKp5(code) ==
    IF code = KEY_KP8 \/ code = KEY_KP5 THEN UP
    ELSE IF code = KEY_KP2 THEN DOWN
    ELSE IF code = KEY_KP4 THEN LEFT
    ELSE IF code = KEY_KP6 THEN RIGHT
    ELSE -1

\* handleKeyEvent's switch: the direction of a key code, -1 for none
KeyIndex(code) ==
    IF code = KEY_KP8 THEN UP
    ELSE IF code = KEY_KP2 THEN DOWN
    ELSE IF code = KEY_KP4 THEN LEFT
    ELSE IF code = KEY_KP6 THEN RIGHT
    ELSE -1

\* handleKeyEvent without the numlockOn test
handleKeyEventNoGate(ev) ==
    LET index == KeyIndex(ev.code)
    IN  IF index = -1 \/ ev.value \notin {0, 1}
        THEN /\ mpc' = "loop"
             /\ UNCHANGED <<numlockOn, isMoving, moveTimes, mi, ghost>>
        ELSE /\ isMoving' = [isMoving EXCEPT ![index] = (ev.value = 1)]
             /\ Observe(isMoving', moveTimes)
             /\ IF ev.value = 1
                THEN mpc' = "loop" /\ mi' = mi
                ELSE mpc' = "keyTimes" /\ mi' = index
             /\ UNCHANGED <<numlockOn, moveTimes>>

\* handleKeyEvent with keyAction taking every value but 0 for a press
handleKeyEventRepeat(ev) ==
    LET index == KeyIndex(ev.code)
    IN  IF numlockOn \/ index = -1
        THEN /\ mpc' = "loop"
             /\ UNCHANGED <<numlockOn, isMoving, moveTimes, mi, ghost>>
        ELSE /\ isMoving' = [isMoving EXCEPT ![index] = (ev.value # 0)]
             /\ Observe(isMoving', moveTimes)
             /\ IF ev.value # 0
                THEN mpc' = "loop" /\ mi' = mi
                ELSE mpc' = "keyTimes" /\ mi' = index
             /\ UNCHANGED <<numlockOn, moveTimes>>

\* handleKeyEvent up to and including the write of isMoving[index] in
\* setIsMoving; a release leaves the write of moveTimes[index] pending
handleKeyEvent(ev) ==
    LET index == KeyIndex(ev.code)
    IN  IF numlockOn \/ index = -1 \/ ev.value \notin {0, 1}
        THEN /\ mpc' = "loop"
             /\ UNCHANGED <<numlockOn, isMoving, moveTimes, mi, ghost>>
        ELSE /\ isMoving' = [isMoving EXCEPT ![index] = (ev.value = 1)]
             /\ Observe(isMoving', moveTimes)
             /\ IF ev.value = 1
                THEN mpc' = "loop" /\ mi' = mi
                ELSE mpc' = "keyTimes" /\ mi' = index
             /\ UNCHANGED <<numlockOn, moveTimes>>

\* handleLEDEvent up to the loop over the directions
handleLEDEvent(ev) ==
    IF ev.code = LED_NUML /\ ev.value = 0
    THEN /\ numlockOn' = FALSE
         /\ mpc' = "loop"
         /\ UNCHANGED <<isMoving, moveTimes, mi, ghost>>
    ELSE IF ev.code = LED_NUML /\ ev.value = 1
    THEN /\ numlockOn' = TRUE
         /\ mpc' = "ledMoving"
         /\ mi' = 0
         /\ UNCHANGED <<isMoving, moveTimes, ghost>>
    ELSE /\ mpc' = "loop"
         /\ UNCHANGED <<numlockOn, isMoving, moveTimes, mi, ghost>>

\* poll returns with POLLIN (or the batch read by handleDevice has a next
\* event) and handleEvent is called with it
HandleEvent(ev) ==
    /\ mpc \in {"poll", "loop"}
    /\ evType' = ev.type
    /\ IF ev.type = EV_KEY THEN handleKeyEvent(ev)
       ELSE IF ev.type = EV_LED THEN handleLEDEvent(ev)
       ELSE /\ mpc' = "loop"
            /\ UNCHANGED <<numlockOn, isMoving, moveTimes, mi, ghost>>
    /\ Delivered
    /\ UNCHANGED <<shouldStop, tickLocal, probe>>

\* setIsMoving(index, false) of a key release: moveTimes[index] = 0
KeyResetTimes ==
    /\ mpc = "keyTimes"
    /\ moveTimes' = [moveTimes EXCEPT ![mi] = 0]
    /\ mpc' = "loop"
    /\ mi' = 0
    /\ Observe(isMoving, moveTimes')
    /\ UNCHANGED <<numlockOn, isMoving, shouldStop, evType, tickLocal, harness>>

\* setIsMoving(i, false) in handleLEDEvent's loop: isMoving[i] = false
LedClearMoving ==
    /\ mpc = "ledMoving"
    /\ isMoving' = [isMoving EXCEPT ![mi] = FALSE]
    /\ Observe(isMoving', moveTimes)
    /\ mpc' = "ledTimes"
    /\ UNCHANGED <<numlockOn, moveTimes, shouldStop, mi, evType, tickLocal, harness>>

\* setIsMoving(i, false) in handleLEDEvent's loop: moveTimes[i] = 0, i++
LedResetTimes ==
    /\ mpc = "ledTimes"
    /\ moveTimes' = [moveTimes EXCEPT ![mi] = 0]
    /\ IF mi + 1 < DIRECTION_NUM
       THEN mi' = mi + 1 /\ mpc' = "ledMoving"
       ELSE mi' = 0 /\ mpc' = "loop"
    /\ Observe(isMoving, moveTimes')
    /\ UNCHANGED <<numlockOn, isMoving, shouldStop, evType, tickLocal, harness>>

\* handleDevice's batch is exhausted: back to the while condition
BatchEnd ==
    /\ mpc = "loop"
    /\ mpc' = "check"
    /\ evType' = -1
    /\ Finished
    /\ UNCHANGED <<shared, mi, tickLocal, ghost, probe>>

\* SIGINT / SIGTERM: interrupt_handler runs; a poll in progress returns EINTR
interrupt_handler ==
    /\ mpc # "done"
    /\ ~shouldStop
    /\ shouldStop' = TRUE
    /\ mpc' = IF mpc = "poll" THEN "check" ELSE mpc
    /\ Signalled
    /\ UNCHANGED <<numlockOn, isMoving, moveTimes, mi, evType, tickLocal, ghost, probe>>

(* ------------------------------------------------------------------ *)
(* Tick thread: moveMouseThread, moveMouse and its callees             *)
(* ------------------------------------------------------------------ *)
\* the tick thread runs until main returns
TickAlive == mpc # "done"

\* usleep returns (or the thread starts): moveMouse is called
TickBegin ==
    /\ TickAlive
    /\ tpc = "sleep"
    /\ ticksLeft > 0
    /\ ticksLeft' = ticksLeft - 1
    /\ tpc' = "incRead"
    /\ ti' = 0
    /\ hist' = HistOf(isMoving)
    /\ snaps' = IF track THEN {CalcAtomic(isMoving, moveTimes)} ELSE {}
    /\ track' = track
    /\ emitted' = << >>
    /\ UNCHANGED <<shared, mainLocal, steps, harness>>

\* incMoveTimes: if (isMoving[i])
IncRead ==
    /\ TickAlive
    /\ tpc = "incRead"
    /\ IF isMoving[ti]
       THEN tpc' = "incAdd" /\ ti' = ti /\ steps' = steps
       ELSE IF ti + 1 < DIRECTION_NUM
       THEN tpc' = "incRead" /\ ti' = ti + 1 /\ steps' = steps
       ELSE tpc' = "calcRead" /\ ti' = 0 /\ steps' = InitSteps
    /\ UNCHANGED <<shared, mainLocal, emitted, ticksLeft, ghost, harness>>

\* incMoveTimes: moveTimes[i]++
IncAdd ==
    /\ TickAlive
    /\ tpc = "incAdd"
    /\ moveTimes' = [moveTimes EXCEPT ![ti] = Inc32(moveTimes[ti])]
    /\ IF ti + 1 < DIRECTION_NUM
       THEN tpc' = "incRead" /\ ti' = ti + 1 /\ steps' = steps
       ELSE tpc' = "calcRead" /\ ti' = 0 /\ steps' = InitSteps
    /\ Observe(isMoving, moveTimes')
    /\ UNCHANGED <<numlockOn, isMoving, shouldStop, mainLocal, emitted, ticksLeft, harness>>

\* calcMoveSteps, first loop: if (isMoving[i])
CalcRead ==
    /\ TickAlive
    /\ tpc = "calcRead"
    /\ IF isMoving[ti]
       THEN tpc' = "calcLoad" /\ ti' = ti
       ELSE IF ti + 1 < DIRECTION_NUM
       THEN tpc' = "calcRead" /\ ti' = ti + 1
       ELSE tpc' = "cancelFirst" /\ ti' = UP
    /\ UNCHANGED <<shared, mainLocal, steps, emitted, ticksLeft, ghost, harness>>

\* calcMoveSteps, first loop: steps[i] = moveStep(moveTimes[i])
CalcLoad ==
    /\ TickAlive
    /\ tpc = "calcLoad"
    /\ steps' = [steps EXCEPT ![ti] = moveStep(moveTimes[ti])]
    /\ IF ti + 1 < DIRECTION_NUM
       THEN tpc' = "calcRead" /\ ti' = ti + 1
       ELSE tpc' = "cancelFirst" /\ ti' = UP
    /\ UNCHANGED <<shared, mainLocal, emitted, ticksLeft, ghost, harness>>

\* where calcMoveSteps goes after the test of the pair that starts at a
AfterPair(a) ==
    IF a = UP THEN tpc' = "cancelFirst" /\ ti' = LEFT
    ELSE tpc' = "write" /\ ti' = 0

\* calcMoveSteps: the left operand of isMoving[UP] && isMoving[DOWN]
\* (ti = UP) and of isMoving[LEFT] && isMoving[RIGHT] (ti = LEFT)
CancelFirst ==
    /\ TickAlive
    /\ tpc = "cancelFirst"
    /\ IF isMoving[ti]
       THEN tpc' = "cancelSecond" /\ ti' = ti
       ELSE AfterPair(ti)
    /\ UNCHANGED <<shared, mainLocal, steps, emitted, ticksLeft, ghost, harness>>

\* calcMoveSteps: the right operand of the && and the body of the if
CancelSecond ==
    /\ TickAlive
    /\ tpc = "cancelSecond"
    /\ steps' = IF isMoving[ti + 1] THEN CancelPair(steps, ti) ELSE steps
    /\ AfterPair(ti)
    /\ UNCHANGED <<shared, mainLocal, emitted, ticksLeft, ghost, harness>>

\* writeDevice writes the three events; moveMouse returns; usleep
WriteDevice ==
    /\ TickAlive
    /\ tpc = "write"
    /\ emitted' = Displacement(steps)
    /\ tpc' = "sleep"
    /\ ti' = 0
    /\ steps' = NoSteps
    /\ snaps' = {}
    /\ UNCHANGED <<shared, mainLocal, ticksLeft, hist, track, harness>>

(* ------------------------------------------------------------------ *)
(* Accesses to isMoving, a plain bool array with no lock around it     *)
(* ------------------------------------------------------------------ *)
\* the elements of isMoving that the next step of the main thread writes
\* (setIsMoving called from handleLEDEvent's loop)
MainWrites == IF mpc = "ledMoving" THEN {mi} ELSE {}

\* the elements of isMoving that the next step of the tick thread reads
TickReads ==
    IF tpc \in {"incRead", "calcRead", "cancelFirst"} THEN {ti}
    ELSE IF tpc = "cancelSecond" THEN {ti + 1}
    ELSE {}

(* ------------------------------------------------------------------ *)
(* The program                                                         *)
(* ------------------------------------------------------------------ *)
\* main up to pthread_create: numlockOn = queryNumlock() is the state of
\* the NumLock LED, or false without an LED device
Init ==
    /\ numlockOn \in BOOLEAN
    /\ isMoving = [i \in Dir |-> FALSE]
    /\ moveTimes = [i \in Dir |-> 0]
    /\ shouldStop = FALSE
    /\ mpc = "resetMoveTimes"
    /\ mi = 0
    /\ evType = -1
    /\ tpc = "sleep"
    /\ ti = 0
    /\ steps = NoSteps
    /\ emitted = << >>
    /\ ticksLeft = MaxTicks
    /\ hist = HistOf(isMoving)
    /\ snaps = {}
    /\ track = FALSE
    /\ probe = NoProbe
    /\ script = NoScript

\* the model ends a behaviour when the last tick it allows has written
Horizon == tpc = "sleep" /\ ticksLeft = 0

MainNext ==
    \/ ResetMoveTimes
    \/ MainCheck
    \/ EnterPoll
    \/ \E ev \in Events : ~Horizon /\ HandleEvent(ev)
    \/ KeyResetTimes
    \/ LedClearMoving
    \/ LedResetTimes
    \/ BatchEnd

TickNext ==
    \/ TickBegin
    \/ IncRead
    \/ IncAdd
    \/ CalcRead
    \/ CalcLoad
    \/ CancelFirst
    \/ CancelSecond
    \/ WriteDevice

Next == MainNext \/ TickNext

Spec == Init /\ [][Next]_vars

\* The program on a keyboard that sends only presses and releases of
\* KP8 (UP) and KP4 (LEFT), NumLock off at the start, with snaps kept.
SnapEvents == [type : {EV_KEY}, code : {KEY_KP8, KEY_KP4}, value : {0, 1}]

InitSnap ==
    /\ numlockOn = FALSE
    /\ isMoving = [i \in Dir |-> FALSE]
    /\ moveTimes = [i \in Dir |-> 0]
    /\ shouldStop = FALSE
    /\ mpc = "resetMoveTimes"
    /\ mi = 0
    /\ evType = -1
    /\ tpc = "sleep"
    /\ ti = 0
    /\ steps = NoSteps
    /\ emitted = << >>
    /\ ticksLeft = MaxTicks
    /\ hist = HistOf(isMoving)
    /\ snaps = {}
    /\ track = TRUE
    /\ probe = NoProbe
    /\ script = NoScript

NextSnap ==
    \/ ResetMoveTimes
    \/ MainCheck
    \/ EnterPoll
    \/ \E ev \in SnapEvents : ~Horizon /\ HandleEvent(ev)
    \/ KeyResetTimes
    \/ BatchEnd
    \/ TickNext

SpecSnap == InitSnap /\ [][NextSnap]_vars

\* The program some time into a run: the two keys of one axis are held,
\* each for one of HoldSamples ticks so far (hold counts that the three
\* regimes of moveStep tell apart), the main thread waits in poll, and
\* the keyboard sends presses and releases of the four direction keys.
HoldSamples == {0, 66, 199}

DirEvents == [type : {EV_KEY}, code : {KEY_KP8, KEY_KP2, KEY_KP4, KEY_KP6},
              value : {0, 1}]

InitHeld ==
    /\ numlockOn = FALSE
    /\ \E a \in {UP, LEFT} : \E x \in HoldSamples : \E y \in HoldSamples :
          /\ isMoving = [i \in Dir |-> i \in {a, a + 1}]
          /\ moveTimes = [i \in Dir |-> IF i = a THEN x ELSE IF i = a + 1 THEN y ELSE 0]
    /\ shouldStop = FALSE
    /\ mpc = "poll"
    /\ mi = 0
    /\ evType = -1
    /\ tpc = "sleep"
    /\ ti = 0
    /\ steps = NoSteps
    /\ emitted = << >>
    /\ ticksLeft = 1
    /\ hist = HistOf(isMoving)
    /\ snaps = {}
    /\ track = FALSE
    /\ probe = NoProbe
    /\ script = NoScript

NextHeld ==
    \/ MainCheck
    \/ EnterPoll
    \/ \E ev \in DirEvents : ~Horizon /\ HandleEvent(ev)
    \/ KeyResetTimes
    \/ BatchEnd
    \/ TickNext

SpecHeld == InitHeld /\ [][NextHeld]_vars

\* The program on a keyboard that plays a scenario: the events of
\* script.todo in their order, each at any moment, in batches of any size.
Key(code, value) == [type |-> EV_KEY, code |-> code, value |-> value]
Led(code, value) == [type |-> EV_LED, code |-> code, value |-> value]

Deliver ==
    /\ script.todo # << >>
    /\ HandleEvent(Head(script.todo))

NextPlay ==
    \/ ResetMoveTimes
    \/ MainCheck
    \/ EnterPoll
    \/ Deliver
    \/ KeyResetTimes
    \/ LedClearMoving
    \/ LedResetTimes
    \/ BatchEnd
    \/ TickNext

\* Scenario C: Left is pressed, NumLock turns on, NumLock turns off, Left
\* is released and pressed again.
ScenarioC ==
    <<Key(KEY_KP4, 1), Led(LED_NUML, 1), Led(LED_NUML, 0), Key(KEY_KP4, 0), Key(KEY_KP4, 1)>>

InitC ==
    /\ numlockOn = FALSE
    /\ isMoving = [i \in Dir |-> FALSE]
    /\ moveTimes = [i \in Dir |-> 0]
    /\ shouldStop = FALSE
    /\ mpc = "resetMoveTimes"
    /\ mi = 0
    /\ evType = -1
    /\ tpc = "sleep"
    /\ ti = 0
    /\ steps = NoSteps
    /\ emitted = << >>
    /\ ticksLeft = MaxScenarioTicks
    /\ hist = HistOf(isMoving)
    /\ snaps = {}
    /\ track = FALSE
    /\ probe = NoProbe
    /\ script = Play(ScenarioC, MaxScenarioTicks)

SpecC == InitC /\ [][NextPlay]_vars

\* Scenario D: Right alone is pressed, held and released.
ScenarioD == <<Key(KEY_KP6, 1), Key(KEY_KP6, 0)>>

InitD ==
    /\ numlockOn = FALSE
    /\ isMoving = [i \in Dir |-> FALSE]
    /\ moveTimes = [i \in Dir |-> 0]
    /\ shouldStop = FALSE
    /\ mpc = "resetMoveTimes"
    /\ mi = 0
    /\ evType = -1
    /\ tpc = "sleep"
    /\ ti = 0
    /\ steps = NoSteps
    /\ emitted = << >>
    /\ ticksLeft = MaxHoldTicks
    /\ hist = HistOf(isMoving)
    /\ snaps = {}
    /\ track = FALSE
    /\ probe = NoProbe
    /\ script = Play(ScenarioD, MaxHoldTicks)

\* the press arrives before the second tick starts, the release once
\* MinHoldTicks ticks have started after the press
DeliverD ==
    /\ Len(script.todo) = 2 => ticksLeft >= MaxHoldTicks - 1
    /\ Len(script.todo) = 1 => script.sent - ticksLeft >= MinHoldTicks
    /\ Deliver

\* the batch of an event ends before a second tick starts after it
BatchEndD ==
    /\ script.sent - ticksLeft <= 1
    /\ BatchEnd

\* with Right alone no tick gets past the left operand of either && of
\* calcMoveSteps, so CancelSecond has no step here
NextD ==
    \/ ResetMoveTimes
    \/ MainCheck
    \/ EnterPoll
    \/ DeliverD
    \/ KeyResetTimes
    \/ BatchEndD
    \/ TickBegin
    \/ IncRead
    \/ IncAdd
    \/ CalcRead
    \/ CalcLoad
    \/ CancelFirst
    \/ WriteDevice

SpecD == InitD /\ [][NextD]_vars

\* Scenario E: Up is pressed, NumLock turns on and off again, the held
\* key autorepeats, and Up is pressed anew and released.
ScenarioE ==
    <<Key(KEY_KP8, 1), Led(LED_NUML, 1), Led(LED_NUML, 0), Key(KEY_KP8, 2),
      Key(KEY_KP8, 1), Key(KEY_KP8, 0)>>

InitE ==
    /\ numlockOn = FALSE
    /\ isMoving = [i \in Dir |-> FALSE]
    /\ moveTimes = [i \in Dir |-> 0]
    /\ shouldStop = FALSE
    /\ mpc = "resetMoveTimes"
    /\ mi = 0
    /\ evType = -1
    /\ tpc = "sleep"
    /\ ti = 0
    /\ steps = NoSteps
    /\ emitted = << >>
    /\ ticksLeft = MaxScenarioTicks
    /\ hist = HistOf(isMoving)
    /\ snaps = {}
    /\ track = FALSE
    /\ probe = NoProbe
    /\ script = Play(ScenarioE, MaxScenarioTicks)

SpecE == InitE /\ [][NextPlay]_vars

\* One tick on a silent keyboard, some time into a run: each direction is
\* either held, for one of HoldSamples ticks so far, or released, with the
\* hold count 0 or the count 1 that a late increment leaves behind.
InitQuiet ==
    /\ numlockOn = FALSE
    /\ isMoving \in [Dir -> BOOLEAN]
    /\ moveTimes \in [Dir -> HoldSamples \cup {1}]
    /\ \A i \in Dir : IF isMoving[i] THEN moveTimes[i] \in HoldSamples
                                   ELSE moveTimes[i] \in {0, 1}
    /\ shouldStop = FALSE
    /\ mpc = "poll"
    /\ mi = 0
    /\ evType = -1
    /\ tpc = "sleep"
    /\ ti = 0
    /\ steps = NoSteps
    /\ emitted = << >>
    /\ ticksLeft = 1
    /\ hist = HistOf(isMoving)
    /\ snaps = {}
    /\ track = FALSE
    /\ probe = NoProbe
    /\ script = NoScript

SpecQuiet == InitQuiet /\ [][TickNext]_vars

\* The program after Right has been held for INT_MAX - 1 ticks, on a
\* keyboard that sends presses and releases of the four direction keys.
InitLong ==
    /\ numlockOn = FALSE
    /\ isMoving = [i \in Dir |-> i = RIGHT]
    /\ moveTimes = [i \in Dir |-> IF i = RIGHT THEN INT_MAX - 1 ELSE 0]
    /\ shouldStop = FALSE
    /\ mpc = "poll"
    /\ mi = 0
    /\ evType = -1
    /\ tpc = "sleep"
    /\ ti = 0
    /\ steps = NoSteps
    /\ emitted = << >>
    /\ ticksLeft = MaxWrapTicks
    /\ hist = HistOf(isMoving)
    /\ snaps = {}
    /\ track = FALSE
    /\ probe = NoProbe
    /\ script = NoScript

SpecLong == InitLong /\ [][NextHeld]_vars

\* The program with a SIGINT or SIGTERM delivered at any moment, on a
\* keyboard that sends presses and releases of KP8 and NumLock-on events.
\* Both threads keep being scheduled; the keyboard may stay silent.
StopEvents == {Key(KEY_KP8, 1), Key(KEY_KP8, 0), Led(LED_NUML, 1)}

InitSignal ==
    /\ numlockOn = FALSE
    /\ isMoving = [i \in Dir |-> FALSE]
    /\ moveTimes = [i \in Dir |-> 0]
    /\ shouldStop = FALSE
    /\ mpc = "resetMoveTimes"
    /\ mi = 0
    /\ evType = -1
    /\ tpc = "sleep"
    /\ ti = 0
    /\ steps = NoSteps
    /\ emitted = << >>
    /\ ticksLeft = MaxStopTicks
    /\ hist = HistOf(isMoving)
    /\ snaps = {}
    /\ track = FALSE
    /\ probe = NoProbe
    /\ script = Play(<< >>, MaxStopTicks)

\* the steps of the main thread that wait for nothing
MainRuns ==
    \/ ResetMoveTimes
    \/ MainCheck
    \/ EnterPoll
    \/ KeyResetTimes
    \/ LedClearMoving
    \/ LedResetTimes
    \/ BatchEnd

NextSignal ==
    \/ MainRuns
    \/ \E ev \in StopEvents : ~Horizon /\ HandleEvent(ev)
    \/ TickNext
    \/ interrupt_handler

SpecSignal ==
    InitSignal /\ [][NextSignal]_vars /\ WF_vars(MainRuns) /\ WF_vars(TickNext)

(* ------------------------------------------------------------------ *)
(* The acceleration curve on its own: moveStep applied to two hold     *)
(* durations t1 <= t2 drawn from 0 .. MaxT                             *)
(* ------------------------------------------------------------------ *)
InitStep ==
    /\ numlockOn = FALSE
    /\ isMoving = [i \in Dir |-> FALSE]
    /\ moveTimes = [i \in Dir |-> 0]
    /\ shouldStop = FALSE
    /\ mpc = "resetMoveTimes"
    /\ mi = 0
    /\ evType = -1
    /\ tpc = "sleep"
    /\ ti = 0
    /\ steps = NoSteps
    /\ emitted = << >>
    /\ ticksLeft = 0
    /\ hist = HistOf(isMoving)
    /\ snaps = {}
    /\ track = FALSE
    /\ \E a \in 0 .. MaxT : \E b \in a .. MaxT :
          probe = [t1 |-> a, t2 |-> b, s1 |-> 0, s2 |-> 0, pc |-> "call"]
    /\ script = NoScript

CallMoveStep ==
    /\ probe.pc = "call"
    /\ probe' = [probe EXCEPT !.s1 = moveStep(probe.t1),
                              !.s2 = moveStep(probe.t2),
                              !.pc = "ret"]
    /\ script' = script
    /\ UNCHANGED <<shared, mainLocal, tickLocal, ghost>>

SpecStep == InitStep /\ [][CallMoveStep]_vars

(* ------------------------------------------------------------------ *)
(* Properties                                                          *)
(* ------------------------------------------------------------------ *)
\* a tick has just ended: its write is in emitted, hist describes it
TickEnded == tpc = "sleep" /\ emitted # << >>

\* C1: while numlockOn is true, no step of the handling of a key event,
\* whatever its code and value, changes isMoving or moveTimes.
NumLockBlocksKeys ==
    [][\A ev \in KeyEvents :
          (numlockOn /\ (HandleEvent(ev) \/ KeyResetTimes))
              => (isMoving' = isMoving /\ moveTimes' = moveTimes)]_vars

\* C1 witness: a key event of a direction key was handled with NumLock on
\* while a tick was running.
KeyIgnoredUnderNumLock ==
    numlockOn /\ evType = EV_KEY /\ mpc = "loop" /\ tpc = "incAdd"

\* C2 (as claimed): whenever numlockOn is true and handleLEDEvent is not
\* in the middle of its loop, every direction is inactive with hold count 0.
NumLockForcesNeutral ==
    (numlockOn /\ mpc \notin {"ledMoving", "ledTimes"})
        => \A i \in Dir : ~isMoving[i] /\ moveTimes[i] = 0

\* C3 (as claimed): a step that makes a direction active leaves its hold
\* count 0, and the step that completes a release leaves it 0.
ResetLaw ==
    [][\A i \in Dir :
          /\ (~isMoving[i] /\ isMoving'[i]) => moveTimes'[i] = 0
          /\ ((KeyResetTimes \/ LedResetTimes) /\ mi = i) => moveTimes'[i] = 0]_vars

\* C4 (as claimed): a hold count changes only by a reset to 0 or by an
\* increment of exactly 1 made while the direction is active.
HoldTicksRule ==
    [][\A i \in Dir :
          moveTimes'[i] # moveTimes[i]
              => \/ moveTimes'[i] = 0
                 \/ (isMoving[i] /\ moveTimes'[i] = moveTimes[i] + 1)]_vars

\* C5: a tick during all of which UP and DOWN were both active writes
\* y = 0, and one during all of which LEFT and RIGHT were both active
\* writes x = 0, whatever the hold counts.
OppositeCancel ==
    TickEnded => /\ hist.ud => emitted[2] = 0
                 /\ hist.lr => emitted[1] = 0

\* C5 witness: such a tick ended with UP at the top step and DOWN at the
\* bottom step, while LEFT had been pressed during the tick.
CancelledTick ==
    /\ TickEnded /\ hist.ud /\ emitted[2] = 0
    /\ moveStep(moveTimes[UP]) = MAX_STEP /\ moveStep(moveTimes[DOWN]) = MIN_STEP
    /\ isMoving[LEFT] /\ emitted[1] = 0 - MIN_STEP

\* C6 (as claimed): the displacement a tick is about to write is the
\* displacement of the state at some single instant of that tick.
AtomicSnapshot ==
    (track /\ tpc = "write") => Displacement(steps) \in snaps

\* C7: a tick during all of which no direction was active writes (0, 0).
NeutralTick ==
    (TickEnded /\ hist.idle) => emitted = <<0, 0>>

\* C7 witness: such a tick ended, after some key had been used before it.
NeutralTickEnded ==
    TickEnded /\ hist.idle /\ emitted = <<0, 0>> /\ ticksLeft = 0
        /\ \E i \in Dir : moveTimes[i] > 0

\* the three regimes of the curve, in exact integer arithmetic
StepReference(t) ==
    IF t <= 50 THEN 1
    ELSE IF t <= 200 THEN 1 + ((t - 50) * 9) \div 150
    ELSE 10

\* C8: moveStep(t) is 1 up to 50, 1 + trunc((t - 50) * 9 / 150) up to 200
\* and 10 above.
StepThreeRegimes ==
    probe.pc = "ret" => probe.s1 = StepReference(probe.t1)

\* C8 witness: a result inside the ramp that is neither bound.
StepOnRamp ==
    probe.pc = "ret" /\ probe.t1 = 125 /\ probe.s1 = 5

\* C9: t2 >= t1 >= 0 implies moveStep(t2) >= moveStep(t1).
StepMonotone ==
    (probe.pc = "ret" /\ probe.t2 >= probe.t1 /\ probe.t1 >= 0)
        => probe.s2 >= probe.s1

\* C9 witness: two durations on the ramp with different steps.
StepGrows ==
    probe.pc = "ret" /\ probe.t1 = 66 /\ probe.t2 = 67 /\ probe.s2 > probe.s1

\* C10: 1 <= moveStep(t) <= 10 for every t >= 0.
StepBounds ==
    (probe.pc = "ret" /\ probe.t1 >= 0) => (1 <= probe.s1 /\ probe.s1 <= 10)

\* C10 witness: both bounds are attained.
StepBoundsAttained ==
    probe.pc = "ret" /\ probe.s1 = 1 /\ probe.s2 = 10 /\ probe.t2 = 200

\* the tick that just ended was the k-th to start after the last
\* scripted event reached handleEvent / after its batch ended
TicksSinceSent == script.sent - ticksLeft
TicksSinceDone == script.done - ticksLeft

\* C11, first half: in scenario C a tick that starts after the NumLock-on
\* event was handled, and ends before NumLock turns off, emits (0, 0).
ScenarioCBlocked ==
    (Len(script.todo) = 3 /\ script.done >= 0 /\ TickEnded /\ TicksSinceDone >= 1)
        => emitted = <<0, 0>>

\* C11, last part: the first tick that starts after the second press of
\* Left emits dx = -1.
ScenarioCResumed ==
    (Len(script.todo) = 0 /\ TickEnded /\ TicksSinceSent = 1)
        => emitted = <<0 - MIN_STEP, 0>>

\* C11 (as claimed): in scenario C the tick after NumLock turned on emits
\* (0, 0), the second press of Left finds its hold count 0, and the
\* first tick after that press emits dx = -1.
ScenarioCLaw ==
    /\ [](ScenarioCBlocked /\ ScenarioCResumed)
    /\ [][(Len(script.todo) = 1 /\ Len(script'.todo) = 0) => moveTimes'[LEFT] = 0]_vars

StopEndsDispatch == shouldStop ~> (mpc = "done")

\* C14 (as claimed): after the stop flag is set the tick loop starts at
\* most one more call of moveMouse.
StopEndsTicks == shouldStop => script.stop - ticksLeft <= 1

\* C15 (as claimed): a handled LED event with the NumLock code leaves
\* numlockOn true when its value is not 0 and false when it is 0.
LedForwarded ==
    [][\A ev \in LedEvents :
          (ev.code = LED_NUML /\ HandleEvent(ev)) => numlockOn' = (ev.value # 0)]_vars

\* C16: the NumLock-off event changes numlockOn only; a direction becomes
\* active only by a press of its key handled with NumLock off; and in
\* scenario E every direction is inactive from the NumLock-off event
\* until the new press, the autorepeat in between notwithstanding.
NumLockOffKeepsState ==
    /\ [](Len(script.todo) \in {2, 3} => \A i \in Dir : ~isMoving[i])
    /\ [][HandleEvent(Led(LED_NUML, 0))
             => (~numlockOn' /\ isMoving' = isMoving /\ moveTimes' = moveTimes)]_vars
    /\ [][\A i \in Dir :
             (~isMoving[i] /\ isMoving'[i])
                 => /\ ~numlockOn
                    /\ \E code \in {KEY_KP8, KEY_KP2, KEY_KP4, KEY_KP6} :
                          /\ i = (CASE code = KEY_KP8 -> UP [] code = KEY_KP2 -> DOWN
                                     [] code = KEY_KP4 -> LEFT [] OTHER -> RIGHT)
                          /\ HandleEvent(Key(code, 1))]_vars

\* C16 witness: in scenario E the autorepeat of the held key was handled
\* after NumLock went on and off, Up is still inactive, a tick is running.
AutorepeatAfterNumLockOff ==
    /\ Len(script.todo) = 2 /\ evType = EV_KEY /\ mpc = "loop"
    /\ ~numlockOn /\ ~isMoving[UP] /\ tpc = "calcRead"

\* events that are neither a press or release of a direction key nor a
\* NumLock LED event
Ignored(ev) ==
    \/ ev.type \notin {EV_KEY, EV_LED}
    \/ ev.type = EV_KEY /\ ev.code \notin {KEY_KP8, KEY_KP2, KEY_KP4, KEY_KP6}
    \/ ev.type = EV_KEY /\ ev.value \notin {0, 1}
    \/ ev.type = EV_LED /\ ev.code # LED_NUML

\* C17: handling an ignored event changes none of numlockOn, isMoving and
\* moveTimes.
IgnoredEventsKeepState ==
    [][\/ (numlockOn' = numlockOn /\ isMoving' = isMoving /\ moveTimes' = moveTimes)
       \/ \A ev \in Events : ~(Ignored(ev) /\ HandleEvent(ev))]_vars

\* C17 witness: an event of another type was handled while Up was held
\* and a tick was about to load its step.
IgnoredEventHandled ==
    evType = EV_SYN /\ mpc = "loop" /\ ~numlockOn /\ isMoving[UP] /\ tpc = "calcLoad"

\* the direction opposite to i
Opposite(i) == CASE i = UP -> DOWN [] i = DOWN -> UP [] i = LEFT -> RIGHT [] OTHER -> LEFT

\* what direction i adds to the displacement: nothing when inactive or
\* cancelled, else the step of its hold count
Contribution(i) ==
    IF isMoving[i] /\ ~isMoving[Opposite(i)] THEN StepReference(moveTimes[i]) ELSE 0

\* C18: a tick on a silent keyboard ends with exactly one write, of
\* dx = stepRight - stepLeft and dy = stepDown - stepUp, the steps being
\* those of the hold counts after the tick's increment, which is 1 for
\* each active direction.
EmissionLaw ==
    (tpc = "sleep" /\ ticksLeft = 0)
        => /\ emitted = <<Contribution(RIGHT) - Contribution(LEFT),
                          Contribution(DOWN) - Contribution(UP)>>
           /\ \A i \in Dir : IF isMoving[i] THEN moveTimes[i] - 1 \in HoldSamples
                                          ELSE moveTimes[i] \in {0, 1}

\* C18 witness: a tick ended with Right at the top step, Up on its first
\* tick after the press and Left released with a count left behind.
MixedTickEnded ==
    /\ TickEnded /\ emitted = <<MAX_STEP, 0 - MIN_STEP>>
    /\ moveTimes[UP] = 1 /\ isMoving[UP] /\ ~isMoving[LEFT] /\ moveTimes[LEFT] = 1

\* C19 (as claimed): the two threads are never about to access the same
\* element of the unsynchronised isMoving, one of them writing.
NoDataRace == MainWrites \cap TickReads = {}

\* C20 (as claimed): no hold count is ever negative.
HoldTicksUnsigned == \A i \in Dir : moveTimes[i] >= 0

====
